---- MODULE Spec2Model ----
(***************************************************************************)
(* Announcement messages of the eth wire protocol                          *)
(* (crates/net/eth-wire/src/types/broadcast.rs): the NewBlockHashes block  *)
(* announcement, the NewPooledTransactionHashes envelope over the Eth66    *)
(* and Eth68 payloads, their filtering and truncation, and the RLP codec   *)
(* of the Eth68 payload.                                                    *)
(*                                                                         *)
(* Indices are 0-based wherever the source computes with them (the list of *)
(* indices to remove); element i of a Vec is element i + 1 of a sequence.  *)
(***************************************************************************)
EXTENDS Integers, Sequences, FiniteSets, Bags, TLC

VARIABLES
    msg,      \* the NewPooledTransactionHashes envelope (NoMsg before one exists)
    prev,     \* the receiver as it was when the last operation was called
    ret,      \* what the last operation returned
    op,       \* the last operation
    arg,      \* the argument of the last operation (of decode: the payload the
              \* buffer carried)
    wire,     \* the bytes of the message in flight (the decode buffer)
    sent,     \* the NewPooledTransactionHashes68 whose encoding is in wire
    blocks,   \* a NewBlockHashes value: its Vec<BlockHashNumber>
    latest,   \* what the last NewBlockHashes::latest() call returned
    valid,    \* a ValidAnnouncementData value (NoValid before one exists, and
              \* after it was consumed)
    trace,    \* what the last operation did with its predicate and its Vecs, in
              \* order: the invocations of f and the Vec::remove calls on hashes
    calls     \* the last two calls of a caller that truncates and filters with
              \* stateless predicates, the older first (empty where calls are
              \* not followed)

vars == <<msg, prev, ret, op, arg, wire, sent, blocks, latest, valid, trace, calls>>

----------------------------------------------------------------------------
(* Bounds of the model *)

\* longest column of an envelope whose columns are built and edited one by one
MaxLen == 2
\* longest aligned envelope that is filtered and truncated
MaxRows == 3
\* longest NewBlockHashes sequence
MaxBlocks == 3
\* longest iterator of (hash, metadata) pairs collected into a RequestTxHashes
MaxPairs == 2

(* Program constants *)

\* a B256 / TxHash is 32 bytes
HashLen == 32

----------------------------------------------------------------------------
(* Values *)

\* the B256 whose 32 bytes all equal b
HashOf(b) == [i \in 1..HashLen |-> b]

HashVals == {HashOf(0), HashOf(255)}
\* u8 transaction types: one below and one above the single-byte RLP limit
TypeVals == {2, 200}
\* usize sizes: zero, and one that needs a length-prefixed RLP string
SizeVals == {0, 182}
\* u64 block numbers
NumberVals == {0, 2, 100}

SeqsUpTo(S, n) == UNION {[1..k -> S] : k \in 0..n}

Eth66(hashes) == [variant |-> "Eth66", types |-> <<>>, sizes |-> <<>>, hashes |-> hashes]
Eth68(types, sizes, hashes) ==
    [variant |-> "Eth68", types |-> types, sizes |-> sizes, hashes |-> hashes]

\* no envelope exists (yet)
NoMsg == [variant |-> "None", types |-> <<>>, sizes |-> <<>>, hashes |-> <<>>]

\* return values
None == [kind |-> "None", val |-> NoMsg]
Some(v) == [kind |-> "Some", val |-> v]
Ok(v) == [kind |-> "Ok", val |-> v]
Err(e) == [kind |-> "Err", val |-> e]
Unit == [kind |-> "Unit", val |-> NoMsg]
Panic == [kind |-> "Panic", val |-> NoMsg]
\* the None of an Option<&BlockHashNumber>
NoRef == [kind |-> "None", val |-> -1]

\* no ValidAnnouncementData exists
NoValid == [data |-> <<>>, version |-> "None"]

\* the parallel-array invariant of NewPooledTransactionHashes68
Aligned(m) == Len(m.types) = Len(m.hashes) /\ Len(m.sizes) = Len(m.hashes)

\* the envelopes that the constructors of the source build: Default, the
\* Arbitrary strategy (one length for all three columns) and the From impls
Aligned68(n) ==
    UNION {{Eth68(t, s, h) : t \in [1..k -> TypeVals], s \in [1..k -> SizeVals],
                             h \in [1..k -> HashVals]} : k \in 0..n}
All66(n) == {Eth66(h) : h \in SeqsUpTo(HashVals, n)}

\* the least and the greatest of a set of numbers
Min(S) == CHOOSE x \in S : \A y \in S : x <= y
Max(S) == CHOOSE x \in S : \A y \in S : y <= x

----------------------------------------------------------------------------
(* Vec primitives *)

\* a truncate that keeps the last len elements
VecTruncateKeepsLast(v, len) ==
    IF len >= Len(v) THEN v ELSE SubSeq(v, Len(v) - len + 1, Len(v))
\* Vec::truncate(len)
VecTruncate(v, len) == IF len >= Len(v) THEN v ELSE SubSeq(v, 1, len)

\* Vec::remove(index): the vector without element index (panics when index >= len,
\* which the callers test with InBounds before)
InBounds(v, index) == index < Len(v)
VecRemove(v, index) == SubSeq(v, 1, index) \o SubSeq(v, index + 2, Len(v))
VecGet(v, index) == v[index + 1]

\* a push at the wrong end
VecPushFront(v, x) == <<x>> \o v
\* Vec::push
VecPush(v, x) == Append(v, x)

----------------------------------------------------------------------------
(* NewPooledTransactionHashes::truncate *)

\* a truncate that forgets the sizes column
TruncateMsgNoSizes(m, len) ==
    IF m.variant = "Eth66"
    THEN [m EXCEPT !.hashes = VecTruncate(m.hashes, len)]
    ELSE [m EXCEPT !.types = VecTruncate(m.types, len),
                   !.hashes = VecTruncate(m.hashes, len)]

TruncateMsg(m, len) ==
    IF m.variant = "Eth66"
    THEN [m EXCEPT !.hashes = VecTruncate(m.hashes, len)]
    ELSE [m EXCEPT !.types = VecTruncate(m.types, len),
                   !.sizes = VecTruncate(m.sizes, len),
                   !.hashes = VecTruncate(m.hashes, len)]

----------------------------------------------------------------------------
(* HandleAnnouncement::retain_by_hash.  The FnMut predicate is given by its  *)
(* answers: f[i + 1] is what its i-th invocation (0-based) returns.          *)

\* a first loop that steps over the element after each one it rejects
RECURSIVE IndicesToRemoveSkipping(_, _, _)
IndicesToRemoveSkipping(hashes, f, i) ==
    IF i >= Len(hashes) THEN <<>>
    ELSE IF ~f[i + 1] THEN <<i>> \o IndicesToRemoveSkipping(hashes, f, i + 2)
    ELSE IndicesToRemoveSkipping(hashes, f, i + 1)

\* the first loop: the indices whose hash the predicate rejects, ascending
RECURSIVE IndicesToRemove(_, _, _)
IndicesToRemove(hashes, f, i) ==
    IF i >= Len(hashes) THEN <<>>
    ELSE (IF ~f[i + 1] THEN <<i>> ELSE <<>>) \o IndicesToRemove(hashes, f, i + 1)

\* the events of a call, as trace records them
CallEvent(index, hash) == [ev |-> "call", index |-> index, hash |-> hash]
RemoveEvent(index, hash) == [ev |-> "remove", index |-> index, hash |-> hash]

\* the first loop again: its invocations f(hash), element i of the iterator on
RECURSIVE PredicateCalls(_, _)
PredicateCalls(hashes, i) ==
    IF i >= Len(hashes) THEN <<>>
    ELSE <<CallEvent(i, VecGet(hashes, i))>> \o PredicateCalls(hashes, i + 1)

\* the loop state when the second loop starts: the receiver's columns, the
\* removed_* vectors, whether a Vec::remove panicked, and the events so far
LoopState(m) ==
    [hashes |-> m.hashes, types |-> m.types, sizes |-> m.sizes,
     removed_hashes |-> <<>>, removed_types |-> <<>>, removed_sizes |-> <<>>,
     panicked |-> FALSE, log |-> PredicateCalls(m.hashes, 0)]

\* an iteration that takes the type of the first row left instead of row index
RemoveRow68FirstType(st, index) ==
    IF ~InBounds(st.hashes, index) THEN [st EXCEPT !.panicked = TRUE]
    ELSE LET s1 == [st EXCEPT !.hashes = VecRemove(st.hashes, index),
                              !.removed_hashes = VecPush(st.removed_hashes,
                                                         VecGet(st.hashes, index)),
                              !.log = Append(st.log,
                                             RemoveEvent(index, VecGet(st.hashes, index)))]
         IN IF ~InBounds(s1.types, 0) THEN [s1 EXCEPT !.panicked = TRUE]
            ELSE LET s2 == [s1 EXCEPT !.types = VecRemove(s1.types, 0),
                                      !.removed_types = VecPush(s1.removed_types,
                                                                VecGet(s1.types, 0))]
                 IN IF ~InBounds(s2.sizes, index) THEN [s2 EXCEPT !.panicked = TRUE]
                    ELSE [s2 EXCEPT !.sizes = VecRemove(s2.sizes, index),
                                    !.removed_sizes = VecPush(s2.removed_sizes,
                                                              VecGet(s2.sizes, index))]

\* one iteration of the second loop of NewPooledTransactionHashes68
RemoveRow68(st, index) ==
    IF ~InBounds(st.hashes, index) THEN [st EXCEPT !.panicked = TRUE]
    ELSE LET s1 == [st EXCEPT !.hashes = VecRemove(st.hashes, index),
                              !.removed_hashes = VecPush(st.removed_hashes,
                                                         VecGet(st.hashes, index)),
                              !.log = Append(st.log,
                                             RemoveEvent(index, VecGet(st.hashes, index)))]
         IN IF ~InBounds(s1.types, index) THEN [s1 EXCEPT !.panicked = TRUE]
            ELSE LET s2 == [s1 EXCEPT !.types = VecRemove(s1.types, index),
                                      !.removed_types = VecPush(s1.removed_types,
                                                                VecGet(s1.types, index))]
                 IN IF ~InBounds(s2.sizes, index) THEN [s2 EXCEPT !.panicked = TRUE]
                    ELSE [s2 EXCEPT !.sizes = VecRemove(s2.sizes, index),
                                    !.removed_sizes = VecPush(s2.removed_sizes,
                                                              VecGet(s2.sizes, index))]

\* one iteration of the second loop of NewPooledTransactionHashes66
RemoveRow66(st, index) ==
    IF ~InBounds(st.hashes, index) THEN [st EXCEPT !.panicked = TRUE]
    ELSE [st EXCEPT !.hashes = VecRemove(st.hashes, index),
                    !.removed_hashes = VecPush(st.removed_hashes, VecGet(st.hashes, index)),
                    !.log = Append(st.log, RemoveEvent(index, VecGet(st.hashes, index)))]

RemoveRow(variant, st, index) ==
    IF variant = "Eth66" THEN RemoveRow66(st, index) ELSE RemoveRow68(st, index)

\* the second loop: indices_to_remove.into_iter().rev(), from its element k down
RECURSIVE RemoveRev(_, _, _, _)
RemoveRev(variant, st, indices, k) ==
    IF k = 0 \/ st.panicked THEN st
    ELSE RemoveRev(variant, RemoveRow(variant, st, indices[k]), indices, k - 1)

\* the second loop without .rev(): ascending, from element k up
RECURSIVE RemoveFwd(_, _, _, _)
RemoveFwd(variant, st, indices, k) ==
    IF k > Len(indices) \/ st.panicked THEN st
    ELSE RemoveFwd(variant, RemoveRow(variant, st, indices[k]), indices, k + 1)

RemoveLoopForward(variant, st, indices) == RemoveFwd(variant, st, indices, 1)

RemoveLoop(variant, st, indices) == RemoveRev(variant, st, indices, Len(indices))

\* one loop that removes a row as soon as the predicate rejects its hash
RECURSIVE ScanAndRemove(_, _, _, _)
ScanAndRemove(variant, st, f, i) ==
    IF i >= Len(st.hashes) \/ st.panicked THEN st
    ELSE LET called == [st EXCEPT !.log = Append(st.log, CallEvent(i, VecGet(st.hashes, i)))]
         IN ScanAndRemove(variant,
                          IF f[i + 1] THEN called ELSE RemoveRow(variant, called, i),
                          f, i + 1)

RetainByHashInterleaved(m, f) ==
    LET st == ScanAndRemove(m.variant, [LoopState(m) EXCEPT !.log = <<>>], f, 0)
    IN [msg |-> [m EXCEPT !.hashes = st.hashes, !.types = st.types, !.sizes = st.sizes],
        removed |-> [m EXCEPT !.hashes = st.removed_hashes, !.types = st.removed_types,
                              !.sizes = st.removed_sizes],
        panicked |-> st.panicked,
        trace |-> st.log]

\* the whole call: the receiver afterwards, the returned value, the panic flag
\* and the events
RetainByHash(m, f) ==
    LET indices_to_remove == IndicesToRemove(m.hashes, f, 0)
        st == RemoveLoop(m.variant, LoopState(m), indices_to_remove)
    IN [msg |-> [m EXCEPT !.hashes = st.hashes, !.types = st.types, !.sizes = st.sizes],
        removed |-> [m EXCEPT !.hashes = st.removed_hashes, !.types = st.removed_types,
                              !.sizes = st.removed_sizes],
        panicked |-> st.panicked,
        trace |-> st.log]

----------------------------------------------------------------------------
(* Actions on the envelope *)

Live == msg.variant # "None" /\ ret.kind # "Panic"

\* msg.truncate(len)
TruncateCall(len) ==
    /\ Live
    /\ msg' = TruncateMsg(msg, len)
    /\ prev' = msg
    /\ ret' = Unit
    /\ op' = "truncate"
    /\ arg' = len
    /\ trace' = <<>>
    /\ UNCHANGED <<wire, sent, blocks, latest, valid>>

\* msg.retain_by_hash(f)
RetainCall(f) ==
    /\ Live
    /\ LET r == RetainByHash(msg, f)
       IN /\ msg' = r.msg
          /\ ret' = IF r.panicked THEN Panic ELSE Some(r.removed)
          /\ trace' = r.trace
    /\ prev' = msg
    /\ op' = "retain_by_hash"
    /\ arg' = f
    /\ UNCHANGED <<wire, sent, blocks, latest, valid>>

Truncate(len) == TruncateCall(len) /\ UNCHANGED calls

Retain(f) == RetainCall(f) /\ UNCHANGED calls

DoTruncate == \E len \in 0..(MaxRows + 1) : Truncate(len)
DoRetain == \E f \in [1..Len(msg.hashes) -> BOOLEAN] : Retain(f)

----------------------------------------------------------------------------
(* Filtering and truncation of an aligned envelope *)

InitFilter ==
    /\ msg \in Aligned68(MaxRows) \cup All66(MaxRows)
    /\ prev = NoMsg
    /\ ret = None
    /\ op = "new"
    /\ arg = 0
    /\ wire = <<>>
    /\ sent = NoMsg
    /\ blocks = <<>>
    /\ latest = NoRef
    /\ valid = NoValid
    /\ trace = <<>>
    /\ calls = <<>>

NextFilter == DoTruncate \/ DoRetain

SpecFilter == InitFilter /\ [][NextFilter]_vars

----------------------------------------------------------------------------
(* A caller that truncates and filters an aligned envelope repeatedly, with  *)
(* stateless predicates: closures that answer by the hash alone.            *)

\* what the invocations of the stateless predicate p answer on these hashes
Answers(p, hashes) == [i \in DOMAIN hashes |-> p[hashes[i]]]

\* calls, once the call c was made
Remember(c) == IF Len(calls) < 2 THEN Append(calls, c) ELSE <<calls[2], c>>

TruncateAgain(len) ==
    /\ TruncateCall(len)
    /\ calls' = Remember([op |-> "truncate", input |-> len, receiver |-> msg])

RetainStateless(p) ==
    /\ RetainCall(Answers(p, msg.hashes))
    /\ calls' = Remember([op |-> "retain_by_hash", input |-> p, receiver |-> msg])

DoTruncateAgain == \E len \in 0..(MaxRows + 1) : TruncateAgain(len)
DoRetainStateless == \E p \in [HashVals -> BOOLEAN] : RetainStateless(p)

NextTwice == DoTruncateAgain \/ DoRetainStateless

SpecTwice == InitFilter /\ [][NextTwice]_vars

----------------------------------------------------------------------------
(* RLP (alloy_rlp), as the derived Encodable / Decodable impls use it *)

\* the value of a let-binding: Only({e(x) : x \in {v}}) is e(v), with v
\* evaluated once
Only(S) == CHOOSE x \in S : TRUE

\* the minimal big-endian bytes of n
RECURSIVE BEBytes(_)
BEBytes(n) == IF n = 0 THEN <<>> ELSE BEBytes(n \div 256) \o <<n % 256>>

RECURSIVE FromBE(_)
FromBE(b) == IF b = <<>> THEN 0 ELSE FromBE(SubSeq(b, 1, Len(b) - 1)) * 256 + b[Len(b)]

\* Header::encode: 0x80 / 0xc0 + length below 56 bytes, else 0xb7 / 0xf7 +
\* length of the length, then the length
EncodeHeader(list, payload_length) ==
    IF payload_length < 56
    THEN <<(IF list THEN 192 ELSE 128) + payload_length>>
    ELSE <<(IF list THEN 247 ELSE 183) + Len(BEBytes(payload_length))>>
         \o BEBytes(payload_length)

\* <[u8] as Encodable>::encode: an RLP string
EncodeBytes(b) ==
    IF Len(b) = 1 /\ b[1] < 128 THEN b ELSE EncodeHeader(FALSE, Len(b)) \o b

\* <usize as Encodable>::encode
EncodeUsize(n) ==
    IF n = 0 THEN <<128>>
    ELSE IF n < 128 THEN <<n>>
    ELSE <<128 + Len(BEBytes(n))>> \o BEBytes(n)

\* <B256 as Encodable>::encode: a 32-byte string
EncodeB256(h) == EncodeHeader(FALSE, HashLen) \o h

RECURSIVE ConcatUsize(_)
ConcatUsize(v) == IF v = <<>> THEN <<>> ELSE EncodeUsize(Head(v)) \o ConcatUsize(Tail(v))
RECURSIVE ConcatB256(_)
ConcatB256(v) == IF v = <<>> THEN <<>> ELSE EncodeB256(Head(v)) \o ConcatB256(Tail(v))
RECURSIVE ConcatU8(_)
ConcatU8(v) == IF v = <<>> THEN <<>> ELSE EncodeUsize(Head(v)) \o ConcatU8(Tail(v))

\* <Vec<T> as Encodable>::encode: an RLP list of the elements
\* a list: the header for the payload, then the payload
EncodeList(payload) == EncodeHeader(TRUE, Len(payload)) \o payload

EncodeVecUsize(v) == Only({EncodeList(payload) : payload \in {ConcatUsize(v)}})
EncodeVecB256(v) == Only({EncodeList(payload) : payload \in {ConcatB256(v)}})
EncodeVecU8(v) == Only({EncodeList(payload) : payload \in {ConcatU8(v)}})

\* decoding steps return [ok, err, val, rest]
DecOk(v, rest) == [ok |-> TRUE, err |-> "", val |-> v, rest |-> rest]
DecErr(e) == [ok |-> FALSE, err |-> e, val |-> <<>>, rest |-> <<>>]

Drop(buf, n) == SubSeq(buf, n + 1, Len(buf))
Take(buf, n) == SubSeq(buf, 1, n)

\* Header::decode, the length-of-length form (first byte b in 0xb8..0xbf or
\* 0xf8..0xff)
DecodeLongHeader(buf, b, len_of_len) ==
    IF Len(buf) - 1 < len_of_len THEN DecErr("InputTooShort")
    ELSE Only({IF len[1] = 0 THEN DecErr("LeadingZero")
               ELSE IF FromBE(len) < 56 THEN DecErr("NonCanonicalSize")
               ELSE DecOk([list |-> b >= 248, payload_length |-> FromBE(len)],
                          Drop(buf, 1 + len_of_len))
               : len \in {Take(Drop(buf, 1), len_of_len)}})

\* Header::decode, by the first byte b
DecodeHeaderByte(buf, b) ==
    IF b < 128 THEN DecOk([list |-> FALSE, payload_length |-> 1], buf)
    ELSE IF b <= 183 THEN
        IF b - 128 = 1 /\ Len(buf) < 2 THEN DecErr("InputTooShort")
        ELSE IF b - 128 = 1 /\ buf[2] < 128 THEN DecErr("NonCanonicalSingleByte")
        ELSE DecOk([list |-> FALSE, payload_length |-> b - 128], Drop(buf, 1))
    ELSE IF b <= 191 THEN DecodeLongHeader(buf, b, b - 183)
    ELSE IF b >= 248 THEN DecodeLongHeader(buf, b, b - 247)
    ELSE DecOk([list |-> TRUE, payload_length |-> b - 192], Drop(buf, 1))

\* Header::decode: val is [list, payload_length], rest starts at the payload
DecodeHeader(buf) ==
    IF buf = <<>> THEN DecErr("InputTooShort")
    ELSE Only({IF h.ok /\ Len(h.rest) < h.val.payload_length THEN DecErr("InputTooShort")
               ELSE h
               : h \in {DecodeHeaderByte(buf, buf[1])}})

\* Header::decode_bytes(buf, is_list): the payload bytes
DecodePayload(buf, is_list) ==
    Only({IF ~h.ok THEN h
          ELSE IF h.val.list # is_list
          THEN DecErr(IF is_list THEN "UnexpectedString" ELSE "UnexpectedList")
          ELSE DecOk(Take(h.rest, h.val.payload_length), Drop(h.rest, h.val.payload_length))
          : h \in {DecodeHeader(buf)}})

\* <Bytes as Decodable>::decode
DecodeBytes(buf) == DecodePayload(buf, FALSE)

\* <usize as Decodable>::decode
DecodeUsize(buf) ==
    Only({IF ~p.ok THEN p
          ELSE IF Len(p.val) > 8 THEN DecErr("Overflow")
          ELSE IF p.val # <<>> /\ p.val[1] = 0 THEN DecErr("LeadingZero")
          ELSE DecOk(FromBE(p.val), p.rest)
          : p \in {DecodePayload(buf, FALSE)}})

\* <B256 as Decodable>::decode
DecodeB256(buf) ==
    Only({IF ~p.ok THEN p
          ELSE IF Len(p.val) # HashLen THEN DecErr("UnexpectedLength")
          ELSE DecOk(p.val, p.rest)
          : p \in {DecodePayload(buf, FALSE)}})

\* the loop of <Vec<T> as Decodable>::decode over the list payload
RECURSIVE DecodeUsizeItems(_, _)
DecodeUsizeItems(payload, acc) ==
    IF payload = <<>> THEN DecOk(acc, <<>>)
    ELSE Only({IF ~d.ok THEN d ELSE DecodeUsizeItems(d.rest, Append(acc, d.val))
               : d \in {DecodeUsize(payload)}})

RECURSIVE DecodeB256Items(_, _)
DecodeB256Items(payload, acc) ==
    IF payload = <<>> THEN DecOk(acc, <<>>)
    ELSE Only({IF ~d.ok THEN d ELSE DecodeB256Items(d.rest, Append(acc, d.val))
               : d \in {DecodeB256(payload)}})

\* the items of a decoded list payload p, with the buffer left after the list
ItemsOf(p, items) == IF ~items.ok THEN items ELSE DecOk(items.val, p.rest)

\* <Vec<usize> as Decodable>::decode
DecodeVecUsize(buf) ==
    Only({IF ~p.ok THEN p ELSE ItemsOf(p, DecodeUsizeItems(p.val, <<>>))
          : p \in {DecodePayload(buf, TRUE)}})

\* <Vec<B256> as Decodable>::decode
DecodeVecB256(buf) ==
    Only({IF ~p.ok THEN p ELSE ItemsOf(p, DecodeB256Items(p.val, <<>>))
          : p \in {DecodePayload(buf, TRUE)}})

----------------------------------------------------------------------------
(* Encodable / Decodable for NewPooledTransactionHashes68 *)

\* an encoder that writes the types column as a list of bytes (Vec<u8>)
Encode68TypesAsList(m) ==
    Only({EncodeList(payload)
          : payload \in {EncodeVecU8(m.types) \o EncodeVecUsize(m.sizes)
                         \o EncodeVecB256(m.hashes)}})

\* encode: the derived struct encoding of (types: &[u8], sizes, hashes)
\* an encode that first cuts the columns to their common length
Encode68Aligning(m) ==
    Only({EncodeList(EncodeBytes(Take(m.types, n)) \o EncodeVecUsize(Take(m.sizes, n))
                     \o EncodeVecB256(Take(m.hashes, n)))
          : n \in {Min({Len(m.types), Len(m.sizes), Len(m.hashes)})}})

Encode68(m) ==
    Only({EncodeList(payload)
          : payload \in {EncodeBytes(m.types) \o EncodeVecUsize(m.sizes)
                         \o EncodeVecB256(m.hashes)}})

ListLengthMismatch(expected, got) ==
    [error |-> "ListLengthMismatch", expected |-> expected, got |-> got]
OtherError(e) == [error |-> e, expected |-> 0, got |-> 0]

\* the end of the derived decode: the fields t, s, x were decoded from the
\* payload of header h
FinishStruct68(h, t, s, x) ==
    IF ~x.ok THEN DecErr(OtherError(x.err))
    ELSE IF Len(h.rest) - Len(x.rest) # h.val.payload_length
    THEN DecErr(ListLengthMismatch(h.val.payload_length, Len(h.rest) - Len(x.rest)))
    ELSE DecOk(Eth68(t.val, s.val, x.val), x.rest)

\* the fields `sizes` and `hashes`, after `types` was decoded into t
DecodeFields68(h, t) ==
    IF ~t.ok THEN DecErr(OtherError(t.err))
    ELSE Only({IF ~s.ok THEN DecErr(OtherError(s.err))
               ELSE Only({FinishStruct68(h, t, s, x) : x \in {DecodeVecB256(s.rest)}})
               : s \in {DecodeVecUsize(t.rest)}})

\* the derived decode of EncodableNewPooledTransactionHashes68: val is the
\* Eth68 payload, or the error
DecodeStruct68(buf) ==
    Only({IF ~h.ok THEN DecErr(OtherError(h.err))
          ELSE IF ~h.val.list THEN DecErr(OtherError("UnexpectedString"))
          ELSE Only({DecodeFields68(h, t) : t \in {DecodeBytes(h.rest)}})
          : h \in {DecodeHeader(buf)}})

\* the two length checks, in the order of a decoder that tests sizes first
CheckLengthsSizesFirst(m) ==
    IF Len(m.hashes) # Len(m.sizes)
    THEN Err(ListLengthMismatch(Len(m.hashes), Len(m.sizes)))
    ELSE IF Len(m.hashes) # Len(m.types)
    THEN Err(ListLengthMismatch(Len(m.hashes), Len(m.types)))
    ELSE Ok(m)

\* length checks without the one on sizes
CheckLengthsTypesOnly(m) ==
    IF Len(m.hashes) # Len(m.types)
    THEN Err(ListLengthMismatch(Len(m.hashes), Len(m.types)))
    ELSE Ok(m)

\* the two length checks of decode
CheckLengths(m) ==
    IF Len(m.hashes) # Len(m.types)
    THEN Err(ListLengthMismatch(Len(m.hashes), Len(m.types)))
    ELSE IF Len(m.hashes) # Len(m.sizes)
    THEN Err(ListLengthMismatch(Len(m.hashes), Len(m.sizes)))
    ELSE Ok(m)

\* decode: [result, rest]
Decode68(buf) ==
    Only({IF ~d.ok THEN [result |-> Err(d.err), rest |-> <<>>]
          ELSE [result |-> CheckLengths(d.val), rest |-> d.rest]
          : d \in {DecodeStruct68(buf)}})

\* every NewPooledTransactionHashes68 a struct literal can build
Any68 == {Eth68(t, s, h) : t \in SeqsUpTo(TypeVals, MaxLen), s \in SeqsUpTo(SizeVals, MaxLen),
                           h \in SeqsUpTo(HashVals, MaxLen)}

\* msg.encode(&mut wire)
EncodeMsg ==
    /\ msg.variant = "Eth68" /\ ret.kind # "Panic" /\ wire = <<>>
    /\ wire' = Encode68(msg)
    /\ sent' = msg
    /\ prev' = msg
    /\ ret' = Unit
    /\ op' = "encode"
    /\ arg' = 0
    /\ trace' = <<>>
    /\ UNCHANGED <<msg, blocks, latest, valid, calls>>

\* NewPooledTransactionHashes68::decode(&mut wire), wrapped into the envelope
DecodeWire ==
    /\ wire # <<>>
    /\ \E d \in {Decode68(wire)} :
          /\ ret' = d.result
          /\ msg' = IF d.result.kind = "Ok" THEN d.result.val ELSE msg
          /\ wire' = d.rest
    /\ prev' = msg
    /\ op' = "decode"
    /\ arg' = sent
    /\ sent' = NoMsg
    /\ trace' = <<>>
    /\ UNCHANGED <<blocks, latest, valid, calls>>

\* a NewPooledTransactionHashes68 written as a struct literal, to be encoded
InitCodec ==
    /\ msg \in Any68
    /\ prev = NoMsg
    /\ ret = None
    /\ op = "new"
    /\ arg = 0
    /\ wire = <<>>
    /\ sent = NoMsg
    /\ blocks = <<>>
    /\ latest = NoRef
    /\ valid = NoValid
    /\ trace = <<>>
    /\ calls = <<>>

NextCodec == EncodeMsg \/ DecodeWire

SpecCodec == InitCodec /\ [][NextCodec]_vars

----------------------------------------------------------------------------
(* The other operations of the envelope *)

\* the EthVersion values that the envelope's methods name
EthVersionVals == {"Eth66", "Eth67", "Eth68"}

\* version(): the tag of the variant
Version(m) == IF m.variant = "Eth66" THEN "Eth66" ELSE "Eth68"

\* msg_version() of the envelope
MsgVersion(m) == Version(m)

\* msg_version() of the payload types
MsgVersion68(payload) == "Eth68"
MsgVersion66(payload) == "Eth66"

\* an is_valid_for_version whose Eth66 arm forgets Eth67
IsValidForVersion66Only(m, version) ==
    IF m.variant = "Eth66" THEN version = "Eth66" ELSE version = "Eth68"

\* is_valid_for_version(version)
IsValidForVersion(m, version) ==
    IF m.variant = "Eth66" THEN version \in {"Eth67", "Eth66"} ELSE version = "Eth68"

\* a call of is_valid_for_version(version) on the envelope
CallIsValidForVersion(version) ==
    /\ Live
    /\ ret' = [kind |-> "Bool", val |-> IsValidForVersion(msg, version)]
    /\ prev' = msg
    /\ op' = "is_valid_for_version"
    /\ arg' = version
    /\ trace' = <<>>
    /\ UNCHANGED <<msg, wire, sent, blocks, latest, valid, calls>>

DoIsValidForVersion == \E version \in EthVersionVals : CallIsValidForVersion(version)

\* Default::default() of the payload types
DefaultOf(variant) == IF variant = "Eth68" THEN Eth68(<<>>, <<>>, <<>>) ELSE Eth66(<<>>)

\* a take that clones the payload and leaves it in place
TakeInnerClone(m, variant) ==
    IF m.variant = variant THEN [msg |-> m, ret |-> Some(m)] ELSE [msg |-> m, ret |-> None]

\* a take that leaves the default of the older payload type behind
TakeInnerLeaves66(m, variant) ==
    IF m.variant = variant THEN [msg |-> DefaultOf("Eth66"), ret |-> Some(m)]
    ELSE [msg |-> m, ret |-> None]

\* the match of take_eth68 / take_eth66: Some(mem::take(msg)) in the arm of
\* `variant`, None in the other; msg is the envelope afterwards
TakeInner(m, variant) ==
    IF m.variant = variant THEN [msg |-> DefaultOf(variant), ret |-> Some(m)]
    ELSE [msg |-> m, ret |-> None]

\* take_eth68
TakeEth68 ==
    /\ Live
    /\ msg' = TakeInner(msg, "Eth68").msg
    /\ ret' = TakeInner(msg, "Eth68").ret
    /\ prev' = msg
    /\ op' = "take_eth68"
    /\ arg' = 0
    /\ trace' = <<>>
    /\ UNCHANGED <<wire, sent, blocks, latest, valid, calls>>

\* take_eth66
TakeEth66 ==
    /\ Live
    /\ msg' = TakeInner(msg, "Eth66").msg
    /\ ret' = TakeInner(msg, "Eth66").ret
    /\ prev' = msg
    /\ op' = "take_eth66"
    /\ arg' = 0
    /\ trace' = <<>>
    /\ UNCHANGED <<wire, sent, blocks, latest, valid, calls>>

\* EthMessage::from(envelope): the envelope is consumed
IntoEthMessage ==
    /\ Live
    /\ msg' = NoMsg
    /\ ret' = [kind |-> IF msg.variant = "Eth66" THEN "NewPooledTransactionHashes66"
                         ELSE "NewPooledTransactionHashes68",
               val |-> msg]
    /\ prev' = msg
    /\ op' = "into_eth_message"
    /\ arg' = 0
    /\ trace' = <<>>
    /\ UNCHANGED <<wire, sent, blocks, latest, valid, calls>>

\* an edit of the hash column through the &mut Vec<B256> of hashes_mut()
HashesMut(hashes) ==
    /\ Live
    /\ msg' = [msg EXCEPT !.hashes = hashes]
    /\ prev' = msg
    /\ ret' = Unit
    /\ op' = "hashes_mut"
    /\ arg' = 0
    /\ trace' = <<>>
    /\ UNCHANGED <<wire, sent, blocks, latest, valid, calls>>

\* an edit of the payload through the &mut of as_eth68_mut()
AsEth68Mut(types, sizes) ==
    /\ Live
    /\ msg.variant = "Eth68"
    /\ msg' = [msg EXCEPT !.types = types, !.sizes = sizes]
    /\ prev' = msg
    /\ ret' = Unit
    /\ op' = "as_eth68_mut"
    /\ arg' = 0
    /\ trace' = <<>>
    /\ UNCHANGED <<wire, sent, blocks, latest, valid, calls>>

\* the edits a caller makes: push, pop, and overwriting one element
HashesMutPush == \E h \in HashVals :
    Len(msg.hashes) < MaxLen /\ HashesMut(VecPush(msg.hashes, h))
HashesMutPop ==
    Len(msg.hashes) > 0 /\ HashesMut(VecTruncate(msg.hashes, Len(msg.hashes) - 1))
HashesMutSet == \E i \in DOMAIN msg.hashes : \E h \in HashVals :
    HashesMut([msg.hashes EXCEPT ![i] = h])
TypesPush == \E t \in TypeVals :
    Len(msg.types) < MaxLen /\ AsEth68Mut(VecPush(msg.types, t), msg.sizes)
TypesPop ==
    Len(msg.types) > 0 /\ AsEth68Mut(VecTruncate(msg.types, Len(msg.types) - 1), msg.sizes)
SizesPush == \E z \in SizeVals :
    Len(msg.sizes) < MaxLen /\ AsEth68Mut(msg.types, VecPush(msg.sizes, z))
SizesPop ==
    Len(msg.sizes) > 0 /\ AsEth68Mut(msg.types, VecTruncate(msg.sizes, Len(msg.sizes) - 1))

\* an envelope built by a constructor, or the bytes of a peer's message that
\* are about to be decoded into one
Init ==
    /\ \/ msg \in Aligned68(MaxLen) \cup All66(MaxLen) /\ sent = NoMsg /\ wire = <<>>
       \/ msg = NoMsg /\ sent \in Any68 /\ wire = Encode68(sent)
    /\ prev = NoMsg
    /\ ret = None
    /\ op = "new"
    /\ arg = 0
    /\ blocks = <<>>
    /\ latest = NoRef
    /\ valid = NoValid
    /\ trace = <<>>
    /\ calls = <<>>

Next ==
    \/ DecodeWire
    \/ DoTruncate
    \/ DoRetain
    \/ TakeEth68
    \/ TakeEth66
    \/ IntoEthMessage
    \/ DoIsValidForVersion
    \/ HashesMutPush
    \/ HashesMutPop
    \/ HashesMutSet
    \/ TypesPush
    \/ TypesPop
    \/ SizesPush
    \/ SizesPop

Spec == Init /\ [][Next]_vars

----------------------------------------------------------------------------
(* NewBlockHashes::latest.  The Option<&BlockHashNumber> it returns is a     *)
(* reference into the Vec: Some(i) refers to element i (0-based).            *)

BlockVals == [hash : HashVals, number : NumberVals]

\* a closure that keeps the accumulator on equal numbers
LatestStepKeepOnTie(bs, acc, i) ==
    IF acc.kind = "Some"
    THEN IF VecGet(bs, acc.val).number >= VecGet(bs, i).number THEN acc ELSE Some(i)
    ELSE Some(i)

\* a closure that compares the wrong way round
LatestStepLess(bs, acc, i) ==
    IF acc.kind = "Some"
    THEN IF VecGet(bs, acc.val).number < VecGet(bs, i).number THEN acc ELSE Some(i)
    ELSE Some(i)

\* the closure of the fold: acc is `latest`, element i is `block`
LatestStep(bs, acc, i) ==
    IF acc.kind = "Some"
    THEN IF VecGet(bs, acc.val).number > VecGet(bs, i).number THEN acc ELSE Some(i)
    ELSE Some(i)

\* self.0.iter().fold(None, ..) over the elements from i on
RECURSIVE LatestFold(_, _, _)
LatestFold(bs, acc, i) ==
    IF i >= Len(bs) THEN acc ELSE LatestFold(bs, LatestStep(bs, acc, i), i + 1)

Latest(bs) == LatestFold(bs, NoRef, 0)

\* blocks.0.push(block)
PushBlock(b) ==
    /\ Len(blocks) < MaxBlocks
    /\ blocks' = VecPush(blocks, b)
    /\ op' = "push"
    /\ UNCHANGED <<msg, prev, ret, arg, wire, sent, latest, valid, trace, calls>>

\* blocks.latest()
CallLatest ==
    /\ latest' = Latest(blocks)
    /\ op' = "latest"
    /\ UNCHANGED <<msg, prev, ret, arg, wire, sent, blocks, valid, trace, calls>>

DoPushBlock == \E b \in BlockVals : PushBlock(b)

InitBlocks ==
    /\ msg = NoMsg
    /\ prev = NoMsg
    /\ ret = None
    /\ op = "new"
    /\ arg = 0
    /\ wire = <<>>
    /\ sent = NoMsg
    /\ blocks = <<>>
    /\ latest = NoRef
    /\ valid = NoValid
    /\ trace = <<>>
    /\ calls = <<>>

NextBlocks == DoPushBlock \/ CallLatest

SpecBlocks == InitBlocks /\ [][NextBlocks]_vars

----------------------------------------------------------------------------
(* ValidAnnouncementData and RequestTxHashes.  The HashMap is a function    *)
(* from its keys to Option<(u8, usize)>; the order in which it is iterated  *)
(* is not specified by HashMap, so every operation that iterates takes the  *)
(* order as an input.                                                       *)

TxHashVals == {HashOf(0), HashOf(1), HashOf(255)}

\* Option<(u8, usize)>
NoMeta == [some |-> FALSE, ty |-> 0, size |-> 0]
SomeMeta(ty, size) == [some |-> TRUE, ty |-> ty, size |-> size]
MetaVals == {NoMeta, SomeMeta(2, 182), SomeMeta(200, 0)}

\* HashMap<TxHash, Option<(u8, usize)>> values
MapVals == UNION {[keys -> MetaVals] : keys \in SUBSET TxHashVals}

\* the orders in which a HashMap with these keys can be iterated
Orders(keys) ==
    {order \in [1..Cardinality(keys) -> keys] : \A k \in keys : \E i \in DOMAIN order : order[i] = k}

\* data.into_iter(), iterated in `order`: the (hash, metadata) items
IntoIter(data, order) == [i \in DOMAIN order |-> <<order[i], data[order[i]]>>]

\* collecting (hash, metadata) items with distinct hashes into a HashMap
CollectMap(items) ==
    [k \in {items[i][1] : i \in DOMAIN items} |->
        (CHOOSE item \in {items[i] : i \in DOMAIN items} : item[1] = k)[2]]

\* the derived Constructor: ValidAnnouncementData::new(data, version)
ValidNew(data, version) == [data |-> data, version |-> version]

\* Iterator::partition, with keep and rest the wrong way round
PartitionSwapped(items, f) ==
    [keep |-> SelectSeq([i \in DOMAIN items |-> <<items[i], f[i]>>], LAMBDA x : ~x[2]),
     rest |-> SelectSeq([i \in DOMAIN items |-> <<items[i], f[i]>>], LAMBDA x : x[2])]

\* Iterator::partition(|(hash, _)| f(hash)): f[i] is what the i-th invocation
\* of f returns; the items are paired with its answer
Partition(items, f) ==
    [keep |-> SelectSeq([i \in DOMAIN items |-> <<items[i], f[i]>>], LAMBDA x : x[2]),
     rest |-> SelectSeq([i \in DOMAIN items |-> <<items[i], f[i]>>], LAMBDA x : ~x[2])]

\* the items of one side of a partition, without the answers
Items(side) == [i \in DOMAIN side |-> side[i][1]]

\* <ValidAnnouncementData as HandleAnnouncement>::retain_by_hash: the receiver
\* afterwards and the returned value
ValidRetainByHash(v, order, f) ==
    Only({[valid |-> [v EXCEPT !.data = CollectMap(Items(p.keep))],
           returned |-> ValidNew(CollectMap(Items(p.rest)), v.version)]
          : p \in {Partition(IntoIter(v.data, order), f)}})

\* a from_iter that collects the pairs back to front
RECURSIVE FromIterReversed(_)
FromIterReversed(iter) ==
    IF iter = <<>> THEN <<>> ELSE VecPush(FromIterReversed(Tail(iter)), Head(iter)[1])

\* <RequestTxHashes as FromIterator>::from_iter: the hashes Vec
RECURSIVE FromIterFrom(_, _)
FromIterFrom(iter, hashes) ==
    IF iter = <<>> THEN hashes ELSE FromIterFrom(Tail(iter), VecPush(hashes, Head(iter)[1]))

FromIter(iter) == FromIterFrom(iter, <<>>)

\* data.into_keys().collect::<Vec<_>>()
IntoKeys(data, order) == [i \in DOMAIN order |-> IntoIter(data, order)[i][1]]

\* into_request_hashes: (RequestTxHashes, EthVersion)
IntoRequestHashes(v, order) == <<IntoKeys(v.data, order), v.version>>

\* RequestTxHashes::len() and is_empty(), through Deref to the Vec
RequestLen(hashes) == Len(hashes)
RequestIsEmpty(hashes) == Len(hashes) = 0

\* new_eth68, new_eth66, empty_eth68, empty_eth66
NewEth68(data) == ValidNew(data, "Eth68")
NewEth66(data) == ValidNew(data, "Eth66")
EmptyEth68 == NewEth68(<<>>)
EmptyEth66 == NewEth66(<<>>)

\* a constructor call `name` that returned v
Construct(v, name) ==
    /\ valid.version = "None"
    /\ valid' = v
    /\ prev' = valid
    /\ ret' = Unit
    /\ op' = name
    /\ arg' = 0
    /\ trace' = <<>>
    /\ UNCHANGED <<msg, wire, sent, blocks, latest, calls>>

CallNew == \E data \in MapVals : \E version \in EthVersionVals :
    Construct(ValidNew(data, version), "new")
CallNewEth68 == \E data \in MapVals : Construct(NewEth68(data), "new_eth68")
CallNewEth66 == \E data \in MapVals : Construct(NewEth66(data), "new_eth66")
CallEmptyEth68 == Construct(EmptyEth68, "empty_eth68")
CallEmptyEth66 == Construct(EmptyEth66, "empty_eth66")

\* valid.retain_by_hash(f), with the HashMap iterated in `order`
ValidRetain(order, f) ==
    /\ valid.version # "None"
    /\ \E r \in {ValidRetainByHash(valid, order, f)} :
          /\ valid' = r.valid
          /\ ret' = [kind |-> "Valid", val |-> r.returned]
    /\ prev' = valid
    /\ op' = "valid_retain_by_hash"
    /\ arg' = [order |-> order, f |-> f]
    /\ trace' = [i \in DOMAIN order |-> CallEvent(i - 1, order[i])]
    /\ UNCHANGED <<msg, wire, sent, blocks, latest, calls>>

DoValidRetain == \E order \in Orders(DOMAIN valid.data) :
    \E f \in [DOMAIN order -> BOOLEAN] : ValidRetain(order, f)

\* valid.into_request_hashes(): the value is consumed
CallIntoRequestHashes(order) ==
    /\ valid.version # "None"
    /\ valid' = NoValid
    /\ ret' = [kind |-> "Request", val |-> IntoRequestHashes(valid, order)]
    /\ prev' = valid
    /\ op' = "into_request_hashes"
    /\ arg' = order
    /\ trace' = <<>>
    /\ UNCHANGED <<msg, wire, sent, blocks, latest, calls>>

DoIntoRequestHashes == \E order \in Orders(DOMAIN valid.data) : CallIntoRequestHashes(order)

\* iter.collect::<RequestTxHashes>()
CallFromIter(iter) ==
    /\ valid.version = "None"
    /\ ret' = [kind |-> "RequestTxHashes", val |-> FromIter(iter)]
    /\ prev' = valid
    /\ op' = "from_iter"
    /\ arg' = iter
    /\ trace' = <<>>
    /\ UNCHANGED <<msg, wire, sent, blocks, latest, valid, calls>>

DoFromIter == \E iter \in SeqsUpTo(TxHashVals \X MetaVals, MaxPairs) : CallFromIter(iter)

InitValid ==
    /\ msg = NoMsg
    /\ prev = NoValid
    /\ ret = None
    /\ op = "none"
    /\ arg = 0
    /\ wire = <<>>
    /\ sent = NoMsg
    /\ blocks = <<>>
    /\ latest = NoRef
    /\ valid = NoValid
    /\ trace = <<>>
    /\ calls = <<>>

NextValid ==
    \/ CallNew
    \/ CallNewEth68
    \/ CallNewEth66
    \/ CallEmptyEth68
    \/ CallEmptyEth66
    \/ DoValidRetain
    \/ DoIntoRequestHashes
    \/ DoFromIter

SpecValid == InitValid /\ [][NextValid]_vars



AlignedIf68(m) == m.variant = "Eth68" => Aligned(m)

\* row i of an aligned envelope: the hash alone (Eth66) or <<hash, type, size>>
Rows(m) ==
    [i \in 1..Len(m.hashes) |->
        IF m.variant = "Eth68" THEN <<m.hashes[i], m.types[i], m.sizes[i]>>
        ELSE <<m.hashes[i]>>]

\* the rows at the positions where the predicate answered b, in their order
RECURSIVE SelectRows(_, _, _, _)
SelectRows(rows, f, b, n) ==
    IF n = 0 THEN <<>>
    ELSE SelectRows(rows, f, b, n - 1) \o (IF f[n] = b THEN <<rows[n]>> ELSE <<>>)

KeptRows(m, f) == SelectRows(Rows(m), f, TRUE, Len(m.hashes))
DroppedRows(m, f) == SelectRows(Rows(m), f, FALSE, Len(m.hashes))

Reverse(s) == [i \in 1..Len(s) |-> s[Len(s) + 1 - i]]

Range(s) == {s[i] : i \in DOMAIN s}
BagOfSeq(s) == [x \in Range(s) |-> Cardinality({i \in DOMAIN s : s[i] = x})]

Retained == op = "retain_by_hash"

\* C1: from an aligned value, after any sequence of truncate and retain_by_hash
\* calls the three columns of the receiver have one length, and so have those
\* of every value retain_by_hash returned.
C1_FilterKeepsAligned ==
    /\ AlignedIf68(msg)
    /\ Retained => (ret.kind = "Some" /\ AlignedIf68(ret.val))

\* an Eth68 receiver that was already shortened, split into two non-empty parts
C1_Witness ==
    /\ Retained /\ msg.variant = "Eth68" /\ ret.kind = "Some"
    /\ Len(prev.hashes) < MaxRows
    /\ Len(msg.hashes) >= 1 /\ Len(ret.val.hashes) >= 1
    /\ Len(msg.types) = Len(msg.hashes) /\ Len(ret.val.sizes) = Len(ret.val.hashes)

\* C2: retain_by_hash partitions the rows: the rows left in the receiver plus
\* the rows of the returned value are, as multisets, the rows of the original;
\* an Eth68 row is the whole <<hash, type, size>> triple.
C2_RetainPartitions ==
    Retained =>
        /\ ret.kind = "Some"
        /\ msg.variant = prev.variant /\ ret.val.variant = prev.variant
        /\ AlignedIf68(msg) /\ AlignedIf68(ret.val)
        /\ Len(msg.hashes) + Len(ret.val.hashes) = Len(prev.hashes)
        /\ BagOfSeq(Rows(msg)) (+) BagOfSeq(Rows(ret.val)) = BagOfSeq(Rows(prev))

\* an Eth68 split where one hash occurs with two different (type, size) pairs,
\* one kept and one dropped
C2_Witness ==
    /\ Retained /\ prev.variant = "Eth68" /\ ret.kind = "Some"
    /\ \E i \in DOMAIN msg.hashes : \E j \in DOMAIN ret.val.hashes :
          /\ msg.hashes[i] = ret.val.hashes[j]
          /\ <<msg.types[i], msg.sizes[i]>> # <<ret.val.types[j], ret.val.sizes[j]>>

\* C3: after retain_by_hash the receiver holds exactly the rows at the
\* positions where the predicate answered true, in their original order.
C3_KeptInOrder ==
    Retained =>
        /\ ret.kind = "Some"
        /\ msg.variant = prev.variant
        /\ AlignedIf68(msg)
        /\ Rows(msg) = KeptRows(prev, arg)

\* a predicate that answers differently for two positions holding one hash,
\* with two different rows kept
C3_Witness ==
    /\ Retained /\ ret.kind = "Some"
    /\ \E i, j \in DOMAIN prev.hashes :
          prev.hashes[i] = prev.hashes[j] /\ arg[i] /\ ~arg[j]
    /\ Len(msg.hashes) >= 2 /\ msg.hashes[1] # msg.hashes[2]

\* C4 as stated: the returned value holds the dropped rows in their original
\* relative order.
C4_DroppedInOriginalOrder ==
    Retained =>
        /\ ret.kind = "Some"
        /\ AlignedIf68(ret.val)
        /\ Rows(ret.val) = DroppedRows(prev, arg)

\* C4 amended: the returned value holds exactly the dropped rows, in the
\* reverse of their original order.
C4_DroppedInReverseOrder ==
    Retained =>
        /\ ret.kind = "Some"
        /\ ret.val.variant = prev.variant
        /\ AlignedIf68(ret.val)
        /\ Rows(ret.val) = Reverse(DroppedRows(prev, arg))

\* two different rows dropped, returned last first
C4_Witness ==
    /\ Retained /\ ret.kind = "Some"
    /\ Len(ret.val.hashes) >= 2
    /\ Rows(ret.val)[1] # Rows(ret.val)[2]
    /\ Rows(ret.val)[1] = DroppedRows(prev, arg)[Len(ret.val.hashes)]

----------------------------------------------------------------------------
(* The parallel-array invariant over the whole life of an envelope *)

Edited == op \in {"hashes_mut", "as_eth68_mut"}

\* the last operation changed the length of a column
Resized ==
    \/ Len(msg.hashes) # Len(prev.hashes)
    \/ Len(msg.types) # Len(prev.types)
    \/ Len(msg.sizes) # Len(prev.sizes)

ReturnedAligned == ret.kind \in {"Some", "Ok"} => AlignedIf68(ret.val)

\* C5 as stated: every NewPooledTransactionHashes68 reachable through
\* construction, decoding, truncate, retain_by_hash, take_eth68 and edits
\* through hashes_mut / as_eth68_mut has three columns of one length.
C5_AlwaysAligned == AlignedIf68(msg) /\ ReturnedAligned

\* C5 amended: construction and successful decoding yield aligned values, and
\* every operation on an aligned value leaves and returns aligned values,
\* except an edit through hashes_mut / as_eth68_mut that changes the length of
\* a column.
C5_AlignedUnlessResized ==
    (AlignedIf68(prev) /\ ~(Edited /\ Resized)) => (AlignedIf68(msg) /\ ReturnedAligned)

\* a hash of an aligned Eth68 value overwritten in place through hashes_mut
C5_Witness ==
    /\ op = "hashes_mut" /\ msg.variant = "Eth68"
    /\ Aligned(prev) /\ ~Resized /\ msg # prev
    /\ Len(msg.hashes) >= 2 /\ Aligned(msg)

----------------------------------------------------------------------------
(* Decoding and the round trip *)

Decoded == op = "decode"

\* C6: decoding the encoding of a 3-tuple (types, sizes, hashes) returns a
\* value if and only if both types and sizes are as long as hashes; otherwise
\* it ends in a length-mismatch error and returns no value.
C6_DecodeIffAligned ==
    Decoded =>
        /\ (ret.kind = "Ok") <=> Aligned(arg)
        /\ ret.kind = "Ok" => (Aligned(ret.val) /\ msg = ret.val)
        /\ ~Aligned(arg) =>
              (ret.kind = "Err" /\ ret.val.error = "ListLengthMismatch" /\ msg = prev)

\* types as long as hashes, sizes not: the decode is refused
C6_Witness ==
    /\ Decoded
    /\ Len(arg.types) = Len(arg.hashes) /\ Len(arg.sizes) # Len(arg.hashes)
    /\ Len(arg.hashes) >= 1
    /\ ret.kind = "Err"

\* C7: the length-mismatch error carries expected = number of hashes and got =
\* length of the offending column: types when types mismatches (also when both
\* mismatch), sizes when only sizes mismatches.
C7_MismatchReport ==
    (Decoded /\ ~Aligned(arg)) =>
        /\ ret.kind = "Err"
        /\ ret.val = ListLengthMismatch(
               Len(arg.hashes),
               IF Len(arg.types) # Len(arg.hashes) THEN Len(arg.types) ELSE Len(arg.sizes))

\* both columns mismatch, with different lengths: the types length is reported
C7_Witness ==
    /\ Decoded /\ ret.kind = "Err"
    /\ Len(arg.types) # Len(arg.hashes) /\ Len(arg.sizes) # Len(arg.hashes)
    /\ Len(arg.types) # Len(arg.sizes)
    /\ ret.val.got = Len(arg.types) /\ ret.val.expected = Len(arg.hashes)

\* C8: for every aligned NewPooledTransactionHashes68 v, decode(encode(v))
\* succeeds and equals v (consuming all the bytes).
C8_RoundTrip ==
    (Decoded /\ Aligned(arg)) =>
        /\ ret.kind = "Ok"
        /\ ret.val = arg
        /\ msg = arg
        /\ wire = <<>>

\* a full-length value with a type byte above 0x7f and a non-zero size came back
C8_Witness ==
    /\ Decoded /\ ret.kind = "Ok"
    /\ Len(arg.hashes) = MaxLen
    /\ \E i \in DOMAIN arg.types : arg.types[i] >= 128 /\ arg.sizes[i] >= 128
    /\ msg.hashes = arg.hashes /\ msg.types = arg.types /\ msg.sizes = arg.sizes

----------------------------------------------------------------------------
(* NewBlockHashes::latest *)

AskedLatest == op = "latest"

MaxNumber(bs) == CHOOSE n \in {bs[i].number : i \in DOMAIN bs} :
                    \A i \in DOMAIN bs : bs[i].number <= n

\* the 0-based positions of the blocks with the greatest number
Maxima(bs) == {i \in 0..(Len(bs) - 1) : VecGet(bs, i).number = MaxNumber(bs)}

\* C9: latest() returns None exactly when the sequence is empty, and otherwise
\* an element of the sequence whose number is the greatest of all numbers.
C9_LatestIsMaximum ==
    AskedLatest =>
        /\ (latest.kind = "None") <=> (blocks = <<>>)
        /\ blocks # <<>> =>
              /\ latest.kind = "Some"
              /\ latest.val \in 0..(Len(blocks) - 1)
              /\ \A i \in DOMAIN blocks :
                    blocks[i].number <= VecGet(blocks, latest.val).number

\* the numbers 0, 100, 2 in that order: the block with number 100 is returned
C9_Witness ==
    /\ AskedLatest
    /\ Len(blocks) = 3
    /\ <<blocks[1].number, blocks[2].number, blocks[3].number>> = <<0, 100, 2>>
    /\ latest.kind = "Some" /\ VecGet(blocks, latest.val).number = 100


\* C10 as stated: of several blocks with the greatest number, latest() returns
\* the one that occurs first.
C10_FirstMaximumWins ==
    (AskedLatest /\ blocks # <<>>) =>
        (latest.kind = "Some" /\ latest.val = Min(Maxima(blocks)))

\* C10 amended: of several blocks with the greatest number, latest() returns
\* the one that occurs last.
C10_LastMaximumWins ==
    (AskedLatest /\ blocks # <<>>) =>
        (latest.kind = "Some" /\ latest.val = Max(Maxima(blocks)))

\* two blocks share the greatest number, a smaller one follows them, and the
\* second of the two is returned
C10_Witness ==
    /\ AskedLatest
    /\ Len(blocks) = 3
    /\ blocks[1].number = 100 /\ blocks[2].number = 100 /\ blocks[3].number = 2
    /\ blocks[1].hash # blocks[2].hash
    /\ latest.kind = "Some" /\ latest.val = 1

----------------------------------------------------------------------------
(* Totality of the envelope's operations *)

Called(names) == op \in names

\* the 0-based indices of the rows that the predicate of the last
\* retain_by_hash rejected
Rejected == {i \in 0..(Len(prev.hashes) - 1) : ~arg[i + 1]}

\* C11 as stated: retain_by_hash, truncate and the envelope conversions
\* return normally on every envelope that construction, decoding and the
\* public operations (hashes_mut and as_eth68_mut among them) produce
C11_NeverPanics ==
    Called({"truncate", "retain_by_hash", "take_eth68", "take_eth66", "into_eth_message"})
        => ret.kind # "Panic"

\* C11, amended: truncate and the conversions always return normally, and
\* retain_by_hash does on every Eth66 envelope and every aligned Eth68
\* envelope; on an Eth68 envelope it panics exactly when the predicate
\* rejects a row whose index lies beyond the types or the sizes column
C11_PanicsOnlyBeyondShortColumn ==
    /\ Called({"truncate", "take_eth68", "take_eth66", "into_eth_message"})
           => ret.kind # "Panic"
    /\ Called({"retain_by_hash"}) =>
           /\ AlignedIf68(prev) => ret.kind = "Some"
           /\ ret.kind = "Panic" <=>
                  /\ prev.variant = "Eth68"
                  /\ \E i \in Rejected : i >= Len(prev.types) \/ i >= Len(prev.sizes)

C11_Witness ==
    /\ Called({"retain_by_hash"})
    /\ prev.variant = "Eth68" /\ Aligned(prev) /\ Len(prev.hashes) = MaxLen
    /\ Rejected # {}
    /\ ret.kind = "Some"

----------------------------------------------------------------------------
(* truncate *)

\* the first k elements of a column
FirstOf(column, k) == [i \in 1..k |-> column[i]]

\* C12: truncate(len) leaves exactly the first min(len, current length)
\* rows, unchanged and in order, changes nothing when len is not below the
\* current length, and cuts the three columns of an aligned Eth68 value to
\* the same length
C12_TruncateKeepsPrefix ==
    Called({"truncate"}) =>
        LET k == Min({arg, Len(prev.hashes)})
        IN /\ msg.variant = prev.variant
           /\ msg.hashes = FirstOf(prev.hashes, k)
           /\ msg.variant = "Eth68" =>
                  /\ msg.types = FirstOf(prev.types, k)
                  /\ msg.sizes = FirstOf(prev.sizes, k)
           /\ arg >= Len(prev.hashes) => msg = prev

C12_Witness ==
    /\ Called({"truncate"})
    /\ prev.variant = "Eth68" /\ Aligned(prev)
    /\ 0 < arg /\ arg < Len(prev.hashes)
    /\ Len(msg.types) = arg /\ Len(msg.sizes) = arg /\ Len(msg.hashes) = arg

----------------------------------------------------------------------------
(* take_eth68 / take_eth66 *)

\* what a take of the payload of `variant` must have done
TookOnly(variant) ==
    IF prev.variant = variant
    THEN /\ ret.kind = "Some" /\ ret.val = prev
         /\ msg.variant = variant
         /\ msg.types = <<>> /\ msg.sizes = <<>> /\ msg.hashes = <<>>
    ELSE ret.kind = "None" /\ msg = prev

\* C13: take_eth68 on an Eth68 envelope returns the whole prior payload and
\* leaves an Eth68 envelope with three empty columns, and on an Eth66
\* envelope returns nothing and changes nothing; take_eth66 symmetrically
C13_TakeLeavesDefault ==
    /\ Called({"take_eth68"}) => TookOnly("Eth68")
    /\ Called({"take_eth66"}) => TookOnly("Eth66")

C13_Witness ==
    /\ Called({"take_eth68"})
    /\ prev.variant = "Eth68" /\ Len(prev.hashes) = MaxLen
    /\ ret.kind = "Some" /\ ret.val.hashes = prev.hashes
    /\ msg.hashes = <<>>

----------------------------------------------------------------------------
(* is_valid_for_version *)

\* C14: is_valid_for_version(v) is true for an Eth66 envelope exactly when v
\* is Eth66 or Eth67 and for an Eth68 envelope exactly when v is Eth68,
\* whatever the envelope holds
C14_ValidForVersion ==
    Called({"is_valid_for_version"}) =>
        /\ prev.variant = "Eth66" => (ret.val <=> arg \in {"Eth66", "Eth67"})
        /\ prev.variant = "Eth68" => (ret.val <=> arg = "Eth68")
        /\ msg = prev

C14_Witness ==
    /\ Called({"is_valid_for_version"})
    /\ prev.variant = "Eth66" /\ Len(prev.hashes) > 0
    /\ arg = "Eth67" /\ ret.val

----------------------------------------------------------------------------
(* ValidAnnouncementData::retain_by_hash *)

\* the hashes that the predicate of the last retain_by_hash accepted
Accepted == {arg.order[i] : i \in {j \in DOMAIN arg.order : arg.f[j]}}

\* C15: retain_by_hash on a ValidAnnouncementData leaves in the receiver
\* exactly the entries whose hash the predicate accepted and returns exactly
\* the others, every entry with its metadata, the two key sets disjoint and
\* together the original key set, both with the receiver's version tag
C15_ValidRetainPartitions ==
    Called({"valid_retain_by_hash"}) =>
        /\ DOMAIN valid.data = Accepted
        /\ DOMAIN ret.val.data = (DOMAIN prev.data) \ Accepted
        /\ \A k \in DOMAIN valid.data : valid.data[k] = prev.data[k]
        /\ \A k \in DOMAIN ret.val.data : ret.val.data[k] = prev.data[k]
        /\ (DOMAIN valid.data) \cap (DOMAIN ret.val.data) = {}
        /\ (DOMAIN valid.data) \cup (DOMAIN ret.val.data) = DOMAIN prev.data
        /\ valid.version = prev.version
        /\ ret.val.version = prev.version

C15_Witness ==
    /\ Called({"valid_retain_by_hash"})
    /\ Cardinality(DOMAIN prev.data) = 3
    /\ Cardinality(DOMAIN valid.data) = 1
    /\ Cardinality(DOMAIN ret.val.data) = 2
    /\ \E k \in DOMAIN ret.val.data : ret.val.data[k].some

----------------------------------------------------------------------------
(* The metadata of a ValidAnnouncementData *)

\* every entry of v carries metadata only under the Eth68 tag
MetadataOnlyFor68(v) == \A k \in DOMAIN v.data : v.data[k].some => v.version = "Eth68"

\* C16: in every ValidAnnouncementData built by new, new_eth66, new_eth68,
\* empty_eth66, empty_eth68 and retain_by_hash, an entry has metadata only if
\* the version tag is Eth68, and no entry has any when the tag is Eth66
C16_MetadataOnlyFor68 ==
    /\ MetadataOnlyFor68(valid)
    /\ Called({"valid_retain_by_hash"}) => MetadataOnlyFor68(ret.val)

----------------------------------------------------------------------------
(* RequestTxHashes *)

NoDuplicates(s) == \A i, j \in DOMAIN s : s[i] = s[j] => i = j

\* C17: into_request_hashes returns one hash per entry of the map (as many
\* as the map has entries, no duplicates, the key set) and the version tag;
\* collecting (hash, metadata) pairs yields the hashes of the pairs in
\* iteration order; from an empty mapping the result has length zero and
\* is_empty() is true
C17_RequestHoldsKeys ==
    /\ Called({"into_request_hashes"}) =>
           /\ RequestLen(ret.val[1]) = Cardinality(DOMAIN prev.data)
           /\ NoDuplicates(ret.val[1])
           /\ Range(ret.val[1]) = DOMAIN prev.data
           /\ Range(ret.val[1]) \subseteq TxHashVals
           /\ ret.val[2] = prev.version
           /\ DOMAIN prev.data = {} =>
                  RequestLen(ret.val[1]) = 0 /\ RequestIsEmpty(ret.val[1])
    /\ Called({"from_iter"}) =>
           /\ RequestLen(ret.val) = Len(arg)
           /\ \A i \in DOMAIN arg : ret.val[i] = arg[i][1]
           /\ arg = <<>> => RequestLen(ret.val) = 0 /\ RequestIsEmpty(ret.val)

C17_Witness ==
    /\ Called({"into_request_hashes"})
    /\ Cardinality(DOMAIN prev.data) = 3
    /\ prev.version = "Eth68"
    /\ \E k \in DOMAIN prev.data : prev.data[k].some
    /\ RequestLen(ret.val[1]) = 3
    /\ ret.val[1][1] = HashOf(255)

\* from_iter on two pairs with different hashes
C17_WitnessFromIter ==
    /\ Called({"from_iter"})
    /\ Len(arg) = MaxPairs /\ arg[1][1] # arg[2][1]
    /\ RequestLen(ret.val) = MaxPairs

----------------------------------------------------------------------------
(* The shape of the encoding *)

\* buf is one RLP list of exactly three elements: a byte string holding
\* `types`, a list whose items decode to `sizes`, a list whose items decode
\* to `hashes`
IsTriple(buf, types, sizes, hashes) ==
    \E h \in {DecodePayload(buf, TRUE)} :
        /\ h.ok /\ h.rest = <<>>
        /\ \E t \in {DecodePayload(h.val, FALSE)} :
               /\ t.ok /\ t.val = types
               /\ \E s \in {DecodePayload(t.rest, TRUE)} :
                      /\ s.ok /\ DecodeUsizeItems(s.val, <<>>) = DecOk(sizes, <<>>)
                      /\ \E x \in {DecodePayload(s.rest, TRUE)} :
                             /\ x.ok /\ DecodeB256Items(x.val, <<>>) = DecOk(hashes, <<>>)
                             /\ x.rest = <<>>

\* C18: the encoding of a NewPooledTransactionHashes68 is a list of three
\* elements, the types column as one byte string, then the list of sizes and
\* the list of hashes; three empty columns encode to c3 80 c0 c0, and
\* {types: [0x02], sizes: [0xb6], hashes: [h]} to e6 02 c2 81b6 e1 a0 h
C18_EncodingShape ==
    Called({"encode"}) =>
        /\ IsTriple(wire, sent.types, sent.sizes, sent.hashes)
        /\ sent = Eth68(<<>>, <<>>, <<>>) => wire = <<195, 128, 192, 192>>
        /\ \A h \in HashVals :
               sent = Eth68(<<2>>, <<182>>, <<h>>)
                   => wire = <<230, 2, 194, 129, 182, 225, 160>> \o h

C18_Witness ==
    /\ Called({"encode"})
    /\ sent = Eth68(<<2>>, <<182>>, <<HashOf(255)>>)
    /\ Len(wire) = 7 + HashLen /\ wire[2] = 2

----------------------------------------------------------------------------
(* The invocations of the predicate *)

\* C19: one retain_by_hash call on an Eth66 or Eth68 announcement invokes
\* the predicate exactly once per row, on the hashes in index order
\* 0, 1, ..., n-1, and all n invocations come before the first removal, so
\* each sees the hash that the original held at its index
C19_PredicateOncePerRowFirst ==
    Called({"retain_by_hash"}) =>
        /\ Len(trace) >= Len(prev.hashes)
        /\ \A i \in 1..Len(prev.hashes) : trace[i] = CallEvent(i - 1, prev.hashes[i])
        /\ \A i \in (Len(prev.hashes) + 1)..Len(trace) : trace[i].ev = "remove"

C19_Witness ==
    /\ Called({"retain_by_hash"})
    /\ Len(prev.hashes) = MaxLen /\ prev.hashes[1] # prev.hashes[2]
    /\ ~arg[1] /\ arg[2]
    /\ Len(trace) = MaxLen + 1
    /\ trace[MaxLen].ev = "call" /\ trace[MaxLen + 1].ev = "remove"

----------------------------------------------------------------------------
(* The generation tag *)

\* version(), msg_version() and the payload's own msg_version() agree on m
TagsAgree(m) ==
    /\ MsgVersion(m) = Version(m)
    /\ m.variant = "Eth68" => MsgVersion68(m) = Version(m)
    /\ m.variant = "Eth66" => MsgVersion66(m) = Version(m)

\* C20: the generation tag of an envelope never changes: version() and
\* msg_version() agree and return the same tag before and after truncate,
\* retain_by_hash, take_eth66 and take_eth68, an Eth68 payload reports Eth68
\* whatever it holds, and retain_by_hash returns the receiver's variant
C20_TagNeverChanges ==
    Called({"truncate", "retain_by_hash", "take_eth66", "take_eth68"}) =>
        /\ TagsAgree(prev) /\ TagsAgree(msg)
        /\ Version(msg) = Version(prev)
        /\ (Called({"retain_by_hash"}) /\ ret.kind = "Some") =>
               /\ ret.val.variant = prev.variant
               /\ TagsAgree(ret.val) /\ Version(ret.val) = Version(prev)

C20_Witness ==
    /\ Called({"retain_by_hash"})
    /\ prev.variant = "Eth68" /\ Len(prev.hashes) = MaxLen
    /\ ret.kind = "Some" /\ Len(ret.val.hashes) = MaxLen
    /\ msg.hashes = <<>> /\ msg.types = <<>> /\ msg.sizes = <<>>
    /\ Version(msg) = "Eth68" /\ Version(ret.val) = "Eth68"

----------------------------------------------------------------------------
(* Encoding a payload whose columns differ in length *)

\* C21: encode checks no alignment: it accepts a NewPooledTransactionHashes68
\* whose columns differ in length and emits the three columns as they are;
\* decoding those bytes fails with the length-mismatch error, so
\* decode(encode(v)) returns a value only for aligned v
C21_EncodeChecksNothing ==
    /\ (Called({"encode"}) /\ ~Aligned(sent)) =>
           /\ ret = Unit
           /\ IsTriple(wire, sent.types, sent.sizes, sent.hashes)
           /\ \E d \in {Decode68(wire)} :
                  d.result.kind = "Err" /\ d.result.val.error = "ListLengthMismatch"
    /\ (Decoded /\ ret.kind = "Ok") => (Aligned(arg) /\ ret.val = arg)

\* a payload with more types than hashes was encoded as it is
C21_Witness ==
    /\ Called({"encode"})
    /\ Len(sent.types) = MaxLen /\ Len(sent.sizes) = 1 /\ Len(sent.hashes) = 1
    /\ wire # <<>>
    /\ Decode68(wire).result.kind = "Err"

----------------------------------------------------------------------------
(* Filtering and truncating twice *)

\* the last two calls were both `name`
Twice(name) == Len(calls) = 2 /\ calls[1].op = name /\ calls[2].op = name

\* C22: on an aligned envelope a second retain_by_hash with the same
\* stateless predicate removes nothing (receiver unchanged, returned value
\* empty), and truncate(a) followed by truncate(b) leaves the envelope that
\* truncate(min(a, b)) leaves
C22_Idempotent ==
    /\ (Twice("retain_by_hash") /\ calls[1].input = calls[2].input) =>
           /\ msg = prev
           /\ ret.kind = "Some"
           /\ ret.val.variant = prev.variant
           /\ ret.val.hashes = <<>> /\ ret.val.types = <<>> /\ ret.val.sizes = <<>>
    /\ Twice("truncate") =>
           msg = TruncateMsg(calls[1].receiver, Min({calls[1].input, calls[2].input}))

\* the first call removed some rows of a full Eth68 envelope and kept others;
\* the second, with the same predicate, removed none
C22_Witness ==
    /\ Twice("retain_by_hash") /\ calls[1].input = calls[2].input
    /\ calls[1].receiver.variant = "Eth68"
    /\ Len(calls[1].receiver.hashes) = MaxRows
    /\ prev = calls[2].receiver
    /\ Len(prev.hashes) > 0 /\ Len(prev.hashes) < MaxRows
    /\ msg = prev /\ ret.kind = "Some" /\ ret.val.hashes = <<>>

\* truncate(2) then truncate(1) on a full Eth68 envelope
C22_WitnessTruncate ==
    /\ Twice("truncate")
    /\ calls[1].receiver.variant = "Eth68"
    /\ Len(calls[1].receiver.hashes) = MaxRows
    /\ calls[1].input = 2 /\ calls[2].input = 1
    /\ Len(msg.hashes) = 1 /\ Len(msg.types) = 1 /\ Len(msg.sizes) = 1

====
